---- MODULE Spec2Model ----
(***************************************************************************)
(* Model of the CAN peripheral bring-up in src/src/bus.rs:                 *)
(*   CanConfigurable::new / apply_ram_config / apply_bus_config,           *)
(*   Can::set_init / enable_configuration_change / configure,              *)
(*   CanConfigurable::finalize / set_fd.                                   *)
(* The CCCR mode bits INIT and CCE are owned by the hardware: a write by   *)
(* the CPU is a request (req) which the hardware acknowledges in a later   *)
(* step (cccr); the busy-poll loops of bus.rs wait for that step.          *)
(***************************************************************************)
EXTENDS Integers, Naturals, FiniteSets, Sequences, TLC

VARIABLES
    pc,        \* position of the caller: "start", "init_poll", "cce_poll", "idle", "failed"
    call,      \* public operation in progress: "none", "new", "configure", "finalize", "set_init"
    handle,    \* handle the caller owns: "None", "Configurable" (CanConfigurable), "Operational" (Can)
    result,    \* "None" until `new` returned, then "Ok" or a ConfigurationError
    cccr,      \* CCCR bits as a register read returns them: [init, cce, fdoe]
    req,       \* INIT and CCE as last written by the CPU: [init, cce]
    initArg,   \* the `init` parameter of the set_init call in progress
    log,       \* register writes made so far, each with the mode bits at the time
    nbrp,      \* NBTP.NBRP field, -1 while never written
    arg        \* the inputs of `new`: [c, f, q, ts, base]

vars == <<pc, call, handle, result, cccr, req, initArg, log, nbrp, arg>>

----------------------------------------------------------------------------
(* IEEE-754 binary32 (Rust f32) arithmetic on the values apply_bus_config  *)
(* can produce.  A float is [k, m, e]: k = "num" with value m * 2^e and    *)
(* either m = 0 or 2^23 <= m < 2^24, or k = "nan" / "inf".  All results    *)
(* are rounded to nearest, ties to even, as the hardware FPU and the soft  *)
(* float library do.                                                       *)

MantBits == 24

Pow2(n) == 2 ^ n

RECURSIVE BitLen(_)
BitLen(n) == IF n = 0 THEN 0 ELSE 1 + BitLen(n \div 2)

F32Zero == [k |-> "num", m |-> 0, e |-> 0]

\* m0 * 2^e with a discarded remainder rem out of 2*half, rounded to nearest even
F32Round(m0, rem, half, e) ==
    LET up == (rem > half) \/ (rem = half /\ m0 % 2 = 1)
        m1 == IF up THEN m0 + 1 ELSE m0
    IN  IF m1 = Pow2(MantBits)
        THEN [k |-> "num", m |-> Pow2(MantBits - 1), e |-> e + 1]
        ELSE [k |-> "num", m |-> m1, e |-> e]

\* `n as f32` for an unsigned integer n
F32FromU32(n) ==
    LET bl == BitLen(n)
    IN  IF n = 0 THEN F32Zero
        ELSE IF bl <= MantBits
        THEN [k |-> "num", m |-> n * Pow2(MantBits - bl), e |-> bl - MantBits]
        ELSE LET sh == bl - MantBits
             IN  F32Round(n \div Pow2(sh), n % Pow2(sh), Pow2(sh - 1), sh)

\* a * b: the 48-bit product of the mantissas is kept as two 24-bit limbs
F32Mul(a, b) ==
    IF a.m = 0 \/ b.m = 0 THEN F32Zero
    ELSE
    LET H  == Pow2(12)
        W  == Pow2(MantBits)
        ah == a.m \div H
        al == a.m % H
        bh == b.m \div H
        bl == b.m % H
        mid == ah * bl + al * bh
        losum == (mid % H) * H + al * bl
        hi == ah * bh + (mid \div H) + (losum \div W)
        lo == losum % W
    IN  IF hi >= Pow2(MantBits - 1)
        THEN F32Round(hi, lo, Pow2(MantBits - 1), a.e + b.e + MantBits)
        ELSE F32Round(hi * 2 + (lo \div Pow2(MantBits - 1)),
                      lo % Pow2(MantBits - 1), Pow2(MantBits - 2),
                      a.e + b.e + MantBits - 1)

\* long division: <<floor(q * 2^n + r * 2^n / d), remainder>>
RECURSIVE LongDiv(_, _, _, _)
LongDiv(q, r, d, n) ==
    IF n = 0 THEN <<q, r>>
    ELSE LET r2 == 2 * r
         IN  IF r2 >= d THEN LongDiv(2 * q + 1, r2 - d, d, n - 1)
                        ELSE LongDiv(2 * q, r2, d, n - 1)

\* a / b
F32Div(a, b) ==
    IF b.m = 0 THEN (IF a.m = 0 THEN [k |-> "nan", m |-> 0, e |-> 0]
                                ELSE [k |-> "inf", m |-> 0, e |-> 0])
    ELSE IF a.m = 0 THEN F32Zero
    ELSE
    LET n  == IF a.m >= b.m THEN MantBits - 1 ELSE MantBits
        qr == LongDiv(a.m \div b.m, a.m % b.m, b.m, n)
    IN  F32Round(qr[1], 2 * qr[2], b.m, a.e - b.e - n)

F32IsNaN(x) == x.k = "nan"
F32IsInfinite(x) == x.k = "inf"
\* x < 2^p for a finite x >= 0
F32LtPow2(x, p) == x.m = 0 \/ x.e + MantBits <= p
\* f32::to_int_unchecked for a finite x with 1 <= x < 2^31
F32ToInt(x) == IF x.e >= 0 THEN x.m * Pow2(x.e) ELSE x.m \div Pow2(0 - x.e)

----------------------------------------------------------------------------
(* Inputs of CanConfigurable::new.                                         *)

TsMin == 1
TsMax == 16
DividerLimit == 512
AddressSpan == 65536

MaxBaseBlock == 2
BaseStep == 32768
MemSize == 16384

Clocks == {80000000, 80000001, 135125000, 1024000000, 7999999, 39999999}
Freqs == {0, 125000, 500000, 1000000}
Quantas == {0, 16, 17, 23, 40}
TsPrescales == {TsMin - 1, TsMin, TsMax, TsMax + 1}
Bases == {k * BaseStep : k \in 0..MaxBaseBlock}

Errors == {"InvalidDivider", "ZeroDivider", "BitTimeRounding", "StoppedOutputClock",
           "ZeroQuanta", "DividerIsNaN", "DividerIsInf", "InvalidTimeStampPrescaler",
           "MemoryNotAddressable"}

RamRegs == {"sidfc", "xidfc", "rxbc", "rxesc", "rxf0c", "rxf1c", "txbc", "txesc", "txefc"}
BusRegs == {"nbtp", "tscc", "cccr.fdoe", "dbtp", "cccr.brse", "gfc", "cccr.test", "test.lbck"}

\* SharedMemoryInner::is_addressable: the window lies in the first 64 KiB
is_addressable(base) == base + MemSize <= AddressSpan

----------------------------------------------------------------------------
(* apply_ram_config: the error (or "Ok") and the registers written.        *)

apply_ram_config_write_first(base) ==
    IF ~is_addressable(base)
    THEN [err |-> "MemoryNotAddressable", writes |-> {"sidfc"}]
    ELSE [err |-> "Ok", writes |-> RamRegs]

apply_ram_config(base) ==
    IF ~is_addressable(base)
    THEN [err |-> "MemoryNotAddressable", writes |-> {}]
    ELSE [err |-> "Ok", writes |-> RamRegs]

(* apply_bus_config: the error (or "Ok"), the integer divider, the value   *)
(* written to NBTP.NBRP and the registers written.                         *)

BusErr(e) == [err |-> e, divider |-> 0, nbrp |-> -1, writes |-> {}]

\* lines 195-273, once the input checks have passed.  divider < 512 and the
\* clocks, frequencies and quanta drawn below keep divider * q and every
\* intermediate value far below 2^31, so no u32 operation wraps.
bus_divider(c, f, q) ==
    LET divf == F32Div(F32FromU32(c), F32Mul(F32FromU32(f), F32FromU32(q)))
    IN  IF F32IsNaN(divf) THEN BusErr("DividerIsNaN")
        ELSE IF F32IsInfinite(divf) THEN BusErr("DividerIsInf")
        ELSE IF F32LtPow2(divf, 0) THEN BusErr("ZeroDivider")
        ELSE IF ~F32LtPow2(divf, BitLen(DividerLimit) - 1) THEN BusErr("InvalidDivider")
        ELSE LET divider == F32ToInt(divf)
                 real_output == c \div (divider * q)
             IN  IF real_output # f
                 THEN [BusErr("BitTimeRounding") EXCEPT !.divider = divider]
                 ELSE [err |-> "Ok", divider |-> divider,
                       nbrp |-> (divider - 1) % 65536, writes |-> BusRegs]

\* bus_divider on the inputs of the model, computed once
BusDividerTable ==
    [c \in Clocks, f \in Freqs \ {0}, q \in Quantas \ {0} |-> bus_divider(c, f, q)]

apply_bus_config_ts_late(ts, c, f, q) ==
    IF f = 0 THEN BusErr("StoppedOutputClock")
    ELSE IF q = 0 THEN BusErr("ZeroQuanta")
    ELSE IF ~(ts \in TsMin..TsMax) THEN BusErr("InvalidTimeStampPrescaler")
    ELSE BusDividerTable[c, f, q]

apply_bus_config(ts, c, f, q) ==
    IF ~(ts \in TsMin..TsMax) THEN BusErr("InvalidTimeStampPrescaler")
    ELSE IF f = 0 THEN BusErr("StoppedOutputClock")
    ELSE IF q = 0 THEN BusErr("ZeroQuanta")
    ELSE BusDividerTable[c, f, q]

----------------------------------------------------------------------------
(* Register access.                                                        *)

Stamp(regs) == {[reg |-> r, init |-> cccr.init, cce |-> cccr.cce] : r \in regs}

InitTok(init) == IF init = 1 THEN "cccr.init=1" ELSE "cccr.init=0"

\* cccr.modify(|_, w| w.init().bit(init)): read, change one bit, write back
SetInitWrite_with_cce(init) == [init |-> init, cce |-> IF init = 1 THEN 1 ELSE cccr.cce]

SetInitWrite(init) == [init |-> init, cce |-> cccr.cce]

\* exit condition of the loop `while cccr.read().init().bit() != init {}`
InitPollDone_no_wait(init) == TRUE

InitPollDone_inverted(init) == cccr.init # init

InitPollDone(init) == cccr.init = init

\* exit condition of the loop `while !cccr.read().cce().bit() {}`
CcePollDone == cccr.cce = 1

\* `bus.apply_bus_config(..)?; Ok(bus)`: the handle handed to the caller
NewReturn_ignore_err(err) == "Configurable"

NewReturn(err) == IF err = "Ok" THEN "Configurable" ELSE "None"

----------------------------------------------------------------------------
Init ==
    /\ pc = "start"
    /\ call = "none"
    /\ handle = "None"
    /\ result = "None"
    /\ cccr \in {[init |-> 1, cce |-> 0, fdoe |-> FALSE],
                 [init |-> 0, cce |-> 0, fdoe |-> FALSE],
                 [init |-> 1, cce |-> 1, fdoe |-> FALSE]}
    /\ req = [init |-> cccr.init, cce |-> cccr.cce]
    /\ initArg = 1
    /\ log = {}
    /\ nbrp = -1
    /\ arg = [c |-> 0, f |-> 0, q |-> 0, ts |-> 0, base |-> 0, fd |-> FALSE]

\* Can::set_init up to its poll loop
StartSetInit(init, who) ==
    /\ call' = who
    /\ initArg' = init
    /\ req' = SetInitWrite(init)
    /\ pc' = "init_poll"

\* CanConfigurable::new up to the first poll loop of configure()
New ==
    /\ pc = "start"
    /\ \E c \in Clocks, f \in Freqs, q \in Quantas, ts \in TsPrescales,
          base \in Bases, fd \in BOOLEAN :
         LET ram == apply_ram_config(base)
         IN  /\ arg' = [c |-> c, f |-> f, q |-> q, ts |-> ts, base |-> base, fd |-> fd]
             /\ IF ram.err # "Ok"
                THEN /\ result' = ram.err
                     /\ pc' = "failed"
                     /\ log' = log \cup Stamp(ram.writes)
                     /\ UNCHANGED <<call, initArg, req>>
                ELSE /\ log' = log \cup Stamp(ram.writes \cup {InitTok(1)})
                     /\ StartSetInit(1, "new")
                     /\ UNCHANGED result
    /\ UNCHANGED <<handle, cccr, nbrp>>

\* the loop of set_init ends; the caller of set_init goes on
InitPollExit ==
    /\ pc = "init_poll"
    /\ InitPollDone(initArg)
    /\ IF call \in {"new", "configure"}
       THEN \* enable_configuration_change, line 420
            /\ req' = [init |-> cccr.init, cce |-> 1]
            /\ log' = log \cup Stamp({"cccr.cce=1"})
            /\ pc' = "cce_poll"
            /\ UNCHANGED <<call, handle>>
       ELSE /\ pc' = "idle"
            /\ call' = "none"
            /\ handle' = IF call = "finalize" THEN "Operational" ELSE handle
            /\ UNCHANGED <<req, log>>
    /\ UNCHANGED <<result, cccr, initArg, nbrp, arg>>

\* the loop of enable_configuration_change ends; configure returns, and
\* `new` goes on with apply_bus_config
CcePollExit ==
    /\ pc = "cce_poll"
    /\ CcePollDone
    /\ call' = "none"
    /\ IF call = "new"
       THEN LET bus == apply_bus_config(arg.ts, arg.c, arg.f, arg.q)
            IN  /\ result' = bus.err
                /\ log' = log \cup Stamp(bus.writes)
                /\ nbrp' = IF bus.err = "Ok" THEN bus.nbrp ELSE nbrp
                /\ cccr' = IF bus.err = "Ok" THEN [cccr EXCEPT !.fdoe = arg.fd] ELSE cccr
                /\ handle' = NewReturn(bus.err)
                /\ pc' = IF bus.err = "Ok" THEN "idle" ELSE "failed"
       ELSE /\ handle' = "Configurable"
            /\ pc' = "idle"
            /\ UNCHANGED <<result, log, nbrp, cccr>>
    /\ UNCHANGED <<req, initArg, arg>>

\* CanConfigurable::finalize up to the poll loop
Finalize ==
    /\ pc = "idle"
    /\ handle = "Configurable"
    /\ handle' = "None"
    /\ StartSetInit(0, "finalize")
    /\ log' = log \cup Stamp({InitTok(0)})
    /\ UNCHANGED <<result, cccr, nbrp, arg>>

\* CanConfigurable::set_fd
SetFd ==
    /\ pc = "idle"
    /\ handle = "Configurable"
    /\ \E fd \in BOOLEAN : cccr' = [cccr EXCEPT !.fdoe = fd]
    /\ log' = log \cup Stamp({"cccr.fdoe"})
    /\ UNCHANGED <<pc, call, handle, result, req, initArg, nbrp, arg>>

\* Can::configure up to the first poll loop
Configure ==
    /\ pc = "idle"
    /\ handle = "Operational"
    /\ handle' = "None"
    /\ StartSetInit(1, "configure")
    /\ log' = log \cup Stamp({InitTok(1)})
    /\ UNCHANGED <<result, cccr, nbrp, arg>>

\* Can::set_init called by the owner of the Operational handle
SetInit ==
    /\ pc = "idle"
    /\ handle = "Operational"
    /\ \E init \in {0, 1} :
         /\ StartSetInit(init, "set_init")
         /\ log' = log \cup Stamp({InitTok(init)})
    /\ UNCHANGED <<handle, result, cccr, nbrp, arg>>

\* CanBus::error_counters / protocol_status / ts_count: register reads
ReadStatus ==
    /\ pc = "idle"
    /\ handle = "Operational"
    /\ UNCHANGED vars

(* The peripheral.                                                         *)

\* the hardware takes over the requested INIT (what the loop of set_init
\* waits for); leaving initialization resets CCE, which is why finalize, which
\* clears INIT only, hands over a Can "not in configuration mode (CCE=0)"
HwAckInit ==
    /\ req.init # cccr.init
    /\ cccr' = [cccr EXCEPT !.init = req.init,
                            !.cce = IF req.init = 0 THEN 0 ELSE @]
    /\ req' = [req EXCEPT !.cce = IF req.init = 0 THEN 0 ELSE @]
    /\ UNCHANGED <<pc, call, handle, result, initArg, log, nbrp, arg>>

\* the hardware takes over the requested CCE, which it does only in
\* initialization
HwAckCce ==
    /\ req.cce # cccr.cce
    /\ cccr.init = 1
    /\ cccr' = [cccr EXCEPT !.cce = req.cce]
    /\ UNCHANGED <<pc, call, handle, result, req, initArg, log, nbrp, arg>>

\* Bus_Off: the hardware stops bus operation on its own (INIT = 1)
HwBusOff ==
    /\ pc = "idle"
    /\ handle = "Operational"
    /\ cccr.init = 0
    /\ cccr' = [cccr EXCEPT !.init = 1]
    /\ req' = [req EXCEPT !.init = 1]
    /\ UNCHANGED <<pc, call, handle, result, initArg, log, nbrp, arg>>

Next ==
    \/ New
    \/ InitPollExit
    \/ CcePollExit
    \/ Finalize
    \/ SetFd
    \/ Configure
    \/ SetInit
    \/ ReadStatus
    \/ HwAckInit
    \/ HwAckCce
    \/ HwBusOff

Spec == Init /\ [][Next]_vars

\* the caller runs on, calls finalize once it holds the Configurable handle,
\* and the hardware acknowledges every requested mode bit
FairSpec ==
    /\ Spec
    /\ WF_vars(InitPollExit)
    /\ WF_vars(CcePollExit)
    /\ WF_vars(Finalize)
    /\ WF_vars(HwAckInit)
    /\ WF_vars(HwAckCce)

----------------------------------------------------------------------------
(* Properties.                                                             *)

TsValid == arg.ts \in TsMin..TsMax
\* `new` got as far as running the divider computation of apply_bus_config
BusConfigRan == result # "None" /\ result # "MemoryNotAddressable"
DividerInputs == BusConfigRan /\ TsValid /\ arg.f > 0 /\ arg.q > 0
Quotient == arg.c \div (arg.f * arg.q)
ExactQuotient == arg.c % (arg.f * arg.q) = 0
Finalized == \E w \in log : w.reg = "cccr.init=0"
BecomesConfigurable == handle # "Configurable" /\ handle' = "Configurable"
BecomesOperational == handle # "Operational" /\ handle' = "Operational"
\* the RAM-layout, timing and global-filter registers, which the hardware
\* lets the CPU write only while INIT = 1 and CCE = 1
ProtectedRegs == RamRegs \cup {"nbtp", "tscc", "dbtp", "gfc"}

C2_ExactDividerAccepted ==
    (DividerInputs /\ ExactQuotient /\ Quotient \in 1..(DividerLimit - 1))
        => (result = "Ok" /\ nbrp = Quotient - 1)

\* C3: an inexact quotient c / (f*q) within [1, 512) gives BitTimeRounding,
\* and no timing register is written.
C3_InexactRejected ==
    (DividerInputs /\ ~ExactQuotient /\ Quotient \in 1..(DividerLimit - 1))
        => /\ result = "BitTimeRounding"
           /\ nbrp = -1
           /\ \A w \in log : w.reg \notin {"nbtp", "tscc"}

\* C4: a window that is not addressable makes `new` fail with
\* MemoryNotAddressable without a single register write.
C4_RejectedWindowWritesNothing ==
    (pc # "start" /\ ~is_addressable(arg.base))
        => /\ result = "MemoryNotAddressable"
           /\ pc = "failed"
           /\ log = {}
           /\ nbrp = -1

C4_Rejected == pc = "failed" /\ result = "MemoryNotAddressable" /\ ~is_addressable(arg.base)

\* C5 (as claimed): a ts_prescale outside [1, 16] makes `new` fail with
\* InvalidTimeStampPrescaler whatever the other inputs are.
C5_PrescalerCheckedFirst ==
    (result # "None" /\ ~TsValid) => result = "InvalidTimeStampPrescaler"

\* C5 (amended): a ts_prescale outside [1, 16] makes `new` fail with
\* InvalidTimeStampPrescaler whatever c, f and q are, provided the memory
\* window is addressable; with a window that is not, the error is
\* MemoryNotAddressable.
C5_PrescalerCheckedFirstInBusConfig ==
    (result # "None" /\ ~TsValid)
        => /\ result = IF is_addressable(arg.base) THEN "InvalidTimeStampPrescaler"
                                                   ELSE "MemoryNotAddressable"
           /\ handle = "None"
           /\ nbrp = -1

C5_PrescalerBeatsOthers ==
    /\ result = "InvalidTimeStampPrescaler"
    /\ ~TsValid
    /\ arg.f = 0
    /\ arg.q = 0

\* C6: when `new` returns a ConfigurationError no handle is handed out, the
\* construction has never written INIT = 0, and the bus is not running on
\* registers the construction wrote.
C6_ErrorNeverOperational ==
    result \in Errors
        => /\ handle = "None"
           /\ pc = "failed"
           /\ call = "none"
           /\ ~Finalized
           /\ (log = {} \/ cccr.init = 1)

C6_FailedAfterConfigure == result = "BitTimeRounding" /\ pc = "failed" /\ cccr.cce = 1

\* C7: c = 512*f*q is rejected with InvalidDivider, c = f*q - 1 is rejected
\* with ZeroDivider, and neither writes NBRP.
C7_DividerEdges ==
    DividerInputs
        => /\ (arg.c % DividerLimit = 0 /\ arg.c \div DividerLimit = arg.f * arg.q)
                 => (result = "InvalidDivider" /\ nbrp = -1)
           /\ (arg.c = arg.f * arg.q - 1)
                 => (result = "ZeroDivider" /\ nbrp = -1)

\* C8: a Configurable handle is handed over only with INIT = 1 and CCE = 1
\* acknowledged (for `new`, with result Ok), CCE is requested only once INIT = 1
\* is acknowledged, and the Operational handle is handed over only with
\* INIT = 0 read back and CCE = 0.
C8_ModeBitsAtHandOver ==
    [][/\ BecomesConfigurable =>
             /\ cccr'.init = 1
             /\ cccr'.cce = 1
             /\ result' = "Ok"
       /\ (pc = "init_poll" /\ pc' = "cce_poll") => (cccr.init = 1 /\ req'.init = 1)
       /\ BecomesOperational => (cccr'.init = 0 /\ cccr'.cce = 0)]_vars

C8_OperationalHandedOver ==
    /\ handle = "Operational"
    /\ cccr.init = 0
    /\ cccr.cce = 0
    /\ result = "Ok"

\* C9: every write to a configuration-protected register is made with
\* INIT = 1 and CCE = 1 acknowledged.
C9_ProtectedWritesInConfigMode ==
    \A w \in log : w.reg \in ProtectedRegs => (w.init = 1 /\ w.cce = 1)

\* `new` has passed apply_ram_config with inputs apply_bus_config accepts
C10_ValidNewStarted ==
    /\ call = "new"
    /\ pc = "init_poll"
    /\ apply_bus_config(arg.ts, arg.c, arg.f, arg.q).err = "Ok"

\* C10: with the hardware acknowledging every requested mode bit, `new` with
\* valid inputs followed by finalize ends with the Operational handle; a poll
\* loop is left only on the acknowledge it waits for, and never with an error.
C10_BlockingUntilAcknowledged ==
    /\ C10_ValidNewStarted ~> (handle = "Operational")
    /\ [][/\ (pc = "init_poll" /\ pc' # "init_poll") => cccr.init = initArg
          /\ (pc = "cce_poll" /\ pc' # "cce_poll") => cccr.cce = 1
          /\ (pc = "init_poll" /\ pc' = "init_poll") => UNCHANGED <<call, handle, result>>
          /\ (pc = "cce_poll" /\ pc' = "cce_poll") => UNCHANGED <<call, handle, result>>
          /\ (pc = "init_poll") => result' = result]_vars

C10_OperationalReached ==
    /\ handle = "Operational"
    /\ pc = "idle"
    /\ nbrp >= 0
    /\ apply_bus_config(arg.ts, arg.c, arg.f, arg.q).err = "Ok"
====
